---- MODULE Spec2Model ----
(***************************************************************************)
(* geoblock: the IP range database (read_db) and the country lookup        *)
(* (country_code / search_ip_range) of src/geoblock.py, as used by         *)
(* Service in src/service.py.                                              *)
(*                                                                         *)
(* Spec         the module body of service.py, one step per evaluation:    *)
(*              Service.__init__ makes sure the two dataset files exist    *)
(*              (download_file writes a missing one), then read_db reads   *)
(*              the IPv4 file and the IPv6 file - the rows are parsed one  *)
(*              by one, the list is sorted, the version check decides what *)
(*              is raised or returned - and the two tables are published   *)
(*              as self.databases.                                         *)
(* SpecService  Spec and the lookups Service.country_code serves once the  *)
(*              module-level service object exists.                        *)
(*                                                                         *)
(* Python values keep their dynamic type: a RangeEntry made by             *)
(* ip_range_from_csv holds the str fields of the row, an address object    *)
(* comes from ip_address.  A str is a sequence of one-character strings    *)
(* over Alphabet.  An address object holds its integer _ip as big-endian   *)
(* digits (4 octets for IPv4, 8 hextets for IPv6): the lexicographic       *)
(* order of the digits is the order of the integers.  A call either        *)
(* returns a value or raises; the exception type and the place that        *)
(* raised it are recorded.                                                 *)
(***************************************************************************)
EXTENDS Integers, Sequences, FiniteSets, TLC

\* ------------------------------------------------------------------------
\* Bounds
\* ------------------------------------------------------------------------
MaxRows == 2

\* ------------------------------------------------------------------------
\* Python str: characters, code points, comparison
\* ------------------------------------------------------------------------
Digits == {"0", "1", "2", "3", "4", "5", "6", "7", "8", "9"}

HexLetters == {"a", "b", "c", "d", "e", "f", "A", "B", "C", "D", "E", "F"}

Alphabet == Digits \cup HexLetters \cup {".", ":", "x", "N", "S", "U"}

DigitVal ==
    [c \in Digits |->
        CASE c = "0" -> 0
          [] c = "1" -> 1
          [] c = "2" -> 2
          [] c = "3" -> 3
          [] c = "4" -> 4
          [] c = "5" -> 5
          [] c = "6" -> 6
          [] c = "7" -> 7
          [] c = "8" -> 8
          [] c = "9" -> 9]

HexVal ==
    [c \in Digits \cup HexLetters |->
        CASE c = "0" -> 0
          [] c = "1" -> 1
          [] c = "2" -> 2
          [] c = "3" -> 3
          [] c = "4" -> 4
          [] c = "5" -> 5
          [] c = "6" -> 6
          [] c = "7" -> 7
          [] c = "8" -> 8
          [] c = "9" -> 9
          [] c = "a" -> 10
          [] c = "b" -> 11
          [] c = "c" -> 12
          [] c = "d" -> 13
          [] c = "e" -> 14
          [] c = "f" -> 15
          [] c = "A" -> 10
          [] c = "B" -> 11
          [] c = "C" -> 12
          [] c = "D" -> 13
          [] c = "E" -> 14
          [] c = "F" -> 15]

\* code point of a character of Alphabet
Ord ==
    [c \in Alphabet |->
        CASE c = "." -> 46
          [] c = "0" -> 48
          [] c = "1" -> 49
          [] c = "2" -> 50
          [] c = "3" -> 51
          [] c = "4" -> 52
          [] c = "5" -> 53
          [] c = "6" -> 54
          [] c = "7" -> 55
          [] c = "8" -> 56
          [] c = "9" -> 57
          [] c = ":" -> 58
          [] c = "A" -> 65
          [] c = "B" -> 66
          [] c = "C" -> 67
          [] c = "D" -> 68
          [] c = "E" -> 69
          [] c = "F" -> 70
          [] c = "N" -> 78
          [] c = "S" -> 83
          [] c = "U" -> 85
          [] c = "a" -> 97
          [] c = "b" -> 98
          [] c = "c" -> 99
          [] c = "d" -> 100
          [] c = "e" -> 101
          [] c = "f" -> 102
          [] c = "x" -> 120]

\* lexicographic order of two sequences of naturals, a proper prefix first
RECURSIVE SeqLt(_, _)
SeqLt(a, b) ==
    IF a = <<>> THEN b # <<>>
    ELSE IF b = <<>> THEN FALSE
    ELSE IF Head(a) # Head(b) THEN Head(a) < Head(b)
    ELSE SeqLt(Tail(a), Tail(b))

CodePoints(s) == [i \in 1..Len(s) |-> Ord[s[i]]]

\* str.__lt__: by code point, a proper prefix is smaller
StrLt(a, b) == SeqLt(CodePoints(a), CodePoints(b))

\* str.split(sep) for a one-character separator
RECURSIVE SplitFrom(_, _, _, _, _)
SplitFrom(s, sep, i, cur, acc) ==
    IF i > Len(s) THEN Append(acc, cur)
    ELSE IF s[i] = sep THEN SplitFrom(s, sep, i + 1, <<>>, Append(acc, cur))
    ELSE SplitFrom(s, sep, i + 1, Append(cur, s[i]), acc)

Split(s, sep) == SplitFrom(s, sep, 1, <<>>, <<>>)

Chars(s) == {s[i] : i \in 1..Len(s)}

\* ------------------------------------------------------------------------
\* ipaddress.ip_address (standard library), as called at geoblock.py:93-94
\* and :171.  A parse result is [ok, version, ip].
\* ------------------------------------------------------------------------
NoAddress == [ok |-> FALSE, version |-> 0, ip |-> <<>>]

Address(v, digits) == [ok |-> TRUE, version |-> v, ip |-> digits]

\* int(s, 10) for a string of decimal digits
RECURSIVE DecInt(_)
DecInt(s) ==
    IF s = <<>> THEN 0
    ELSE DecInt(SubSeq(s, 1, Len(s) - 1)) * 10 + DigitVal[s[Len(s)]]

\* int(s, 16) for a string of hex digits
RECURSIVE HexInt(_)
HexInt(s) ==
    IF s = <<>> THEN 0
    ELSE HexInt(SubSeq(s, 1, Len(s) - 1)) * 16 + HexVal[s[Len(s)]]

\* IPv4Address._parse_octet: the octet, or -1 where it raises
ParseOctet(o) ==
    IF o = <<>> THEN -1
    ELSE IF ~(Chars(o) \subseteq Digits) THEN -1
    ELSE IF Len(o) > 3 THEN -1
    ELSE IF o # <<"0">> /\ o[1] = "0" THEN -1
    ELSE IF DecInt(o) > 255 THEN -1
    ELSE DecInt(o)

\* IPv4Address._ip_int_from_string on the octets of the text
V4FromOctets(octets) ==
    IF Len(octets) # 4 THEN NoAddress
    ELSE IF \E i \in 1..4 : ParseOctet(octets[i]) = -1 THEN NoAddress
    ELSE Address(4, [i \in 1..4 |-> ParseOctet(octets[i])])

\* IPv4Address(text)
ParseIPv4(s) ==
    IF "/" \in Chars(s) \/ s = <<>> THEN NoAddress
    ELSE V4FromOctets(Split(s, "."))

\* IPv6Address._parse_hextet: the hextet, or -1 where it raises
ParseHextet(h) ==
    IF ~(Chars(h) \subseteq (Digits \cup HexLetters)) THEN -1
    ELSE IF Len(h) > 4 THEN -1
    ELSE IF h = <<>> THEN -1
    ELSE HexInt(h)

\* a part of an IPv6 text: a hextet text <<0, text>>, or <<1, n>> for a
\* hextet converted from the IPv4-style suffix
TextParts(parts) == [i \in 1..Len(parts) |-> <<0, parts[i]>>]

\* the parts with the IPv4-style suffix v4 in place of the last one
\* (<<>> where the suffix is not an IPv4 address)
WithV4Suffix(parts, v4) ==
    IF ~v4.ok THEN <<>>
    ELSE SubSeq(TextParts(parts), 1, Len(parts) - 1)
         \o << <<1, v4.ip[1] * 256 + v4.ip[2]>>,
               <<1, v4.ip[3] * 256 + v4.ip[4]>> >>

V6Parts(parts) ==
    IF "." \in Chars(parts[Len(parts)])
    THEN WithV4Suffix(parts, ParseIPv4(parts[Len(parts)]))
    ELSE TextParts(parts)

PartEmpty(p) == p[1] = 0 /\ p[2] = <<>>

PartValue(p) == IF p[1] = 1 THEN p[2] ELSE ParseHextet(p[2])

\* the address of hi leading parts, zeros, and lo trailing parts
V6Build(parts, hi, lo) ==
    IF 8 - (hi + lo) < 1 THEN NoAddress
    ELSE IF \E i \in (1..hi) \cup ((Len(parts) - lo + 1)..Len(parts)) :
                PartValue(parts[i]) = -1 THEN NoAddress
    ELSE Address(6,
           [i \in 1..hi |-> PartValue(parts[i])]
           \o [i \in 1..(8 - (hi + lo)) |-> 0]
           \o [i \in 1..lo |-> PartValue(parts[Len(parts) - lo + i])])

\* the parts around the '::' at index skip: parts_hi before, parts_lo after
V6Compressed(parts, hi, lo) ==
    IF PartEmpty(parts[1]) /\ hi # 1 THEN NoAddress
    ELSE IF PartEmpty(parts[Len(parts)]) /\ lo # 1 THEN NoAddress
    ELSE V6Build(parts,
                 IF PartEmpty(parts[1]) THEN 0 ELSE hi,
                 IF PartEmpty(parts[Len(parts)]) THEN 0 ELSE lo)

\* skips: the indexes of the empty parts, the two endpoints disregarded
V6FromSkips(parts, skips) ==
    IF Cardinality(skips) > 1 THEN NoAddress
    ELSE IF skips # {}
    THEN V6Compressed(parts, (CHOOSE i \in skips : TRUE) - 1,
                      Len(parts) - (CHOOSE i \in skips : TRUE))
    ELSE IF Len(parts) # 8 THEN NoAddress
    ELSE IF PartEmpty(parts[1]) \/ PartEmpty(parts[8]) THEN NoAddress
    ELSE IF \E i \in 1..8 : PartValue(parts[i]) = -1 THEN NoAddress
    ELSE Address(6, [i \in 1..8 |-> PartValue(parts[i])])

V6FromParts(parts) ==
    IF Len(parts) = 0 \/ Len(parts) > 9 THEN NoAddress
    ELSE V6FromSkips(parts,
                     {i \in 2..(Len(parts) - 1) : PartEmpty(parts[i])})

\* IPv6Address._ip_int_from_string on the ':'-separated parts of the text
V6FromSplit(parts) ==
    IF Len(parts) < 3 THEN NoAddress ELSE V6FromParts(V6Parts(parts))

\* IPv6Address(text)
ParseIPv6(s) ==
    IF "/" \in Chars(s) \/ s = <<>> THEN NoAddress
    ELSE V6FromSplit(Split(s, ":"))

FirstOk(a, b) == IF a.ok THEN a ELSE b

\* ip_address(text): IPv4 first, then IPv6, else ValueError (ok = FALSE)
IpAddress(s) == FirstOk(ParseIPv4(s), ParseIPv6(s))

\* ------------------------------------------------------------------------
\* Python values, outcomes of a call
\* ------------------------------------------------------------------------
\* a str object
Str(s) == [kind |-> "str", s |-> s, version |-> 0, ip |-> <<>>]

\* an IPv4Address / IPv6Address object made from a parse result
Obj(a) == [kind |-> "addr", s |-> <<>>, version |-> a.version, ip |-> a.ip]

\* a call returns a value (wrapped in a 1-tuple; <<>> is None) or raises
Return(v) == [kind |-> "return", value |-> v, exc |-> "", at |-> ""]

Raise(e, where) == [kind |-> "raise", value |-> <<>>, exc |-> e, at |-> where]

NotCalled == [kind |-> "none", value |-> <<>>, exc |-> "", at |-> ""]

\* a == b on str and address objects (different kinds are never equal)
PyEq(a, b) ==
    IF a.kind # b.kind THEN FALSE
    ELSE IF a.kind = "str" THEN a.s = b.s
    ELSE a.version = b.version /\ a.ip = b.ip

\* a < b: "true", "false", or "TypeError" where Python raises it
PyLt(a, b) ==
    IF a.kind # b.kind THEN "TypeError"
    ELSE IF a.kind = "str" THEN (IF StrLt(a.s, b.s) THEN "true" ELSE "false")
    ELSE IF a.version # b.version THEN "TypeError"
    ELSE IF SeqLt(a.ip, b.ip) THEN "true" ELSE "false"

\* a <= b from a < b and a == b
LeFromLt(lt, eq) ==
    IF lt = "TypeError" THEN "TypeError"
    ELSE IF lt = "true" \/ eq THEN "true" ELSE "false"

PyLe(a, b) == LeFromLt(PyLt(a, b), PyEq(a, b))

\* ------------------------------------------------------------------------
\* RangeData, RangeEntry (geoblock.py:20-33)
\* ------------------------------------------------------------------------
RangeData(cc) == [country_code |-> cc]

RangeEntry(start, end, data) == [start |-> start, end |-> end, data |-> data]

\* RangeEntry.__lt__ of @dataclass(order=True): the tuples (start, end, data)
\* are compared; RangeData is a plain @dataclass, it has == but no <
EntryLt(a, b) ==
    IF ~PyEq(a.start, b.start) THEN PyLt(a.start, b.start)
    ELSE IF ~PyEq(a.end, b.end) THEN PyLt(a.end, b.end)
    ELSE IF a.data # b.data THEN "TypeError"
    ELSE "false"

\* ------------------------------------------------------------------------
\* ip_range_from_csv (geoblock.py:81-102); a row is <<start, end, code>>
\* ------------------------------------------------------------------------
\* lines 96-102 with the family test left out
EntryOfNoFamilyCheck(start, end, data, start_ip, end_ip) ==
    IF ~start_ip.ok THEN Raise("ValueError", "ip_address")
    ELSE IF ~end_ip.ok THEN Raise("ValueError", "ip_address")
    ELSE Return(<<RangeEntry(Str(start), Str(end), RangeData(data[1]))>>)

\* lines 93-102, given the two parse results
EntryOf(start, end, data, start_ip, end_ip) ==
    IF ~start_ip.ok THEN Raise("ValueError", "ip_address")
    ELSE IF ~end_ip.ok THEN Raise("ValueError", "ip_address")
    ELSE IF start_ip.version = 4 /\ end_ip.version = 4
    THEN Return(<<RangeEntry(Str(start), Str(end), RangeData(data[1]))>>)
    ELSE IF start_ip.version = 6 /\ end_ip.version = 6
    THEN Return(<<RangeEntry(Str(start), Str(end), RangeData(data[1]))>>)
    ELSE Raise("ValueError", "ip_range_from_csv")

IpRangeFromCsv(row) ==
    EntryOf(row[1], row[2], SubSeq(row, 3, Len(row)),
            IpAddress(row[1]), IpAddress(row[2]))

\* ------------------------------------------------------------------------
\* sorted(entries) (geoblock.py:131-133): a stable insertion of each entry
\* with RangeEntry.__lt__; a comparison that raises ends the sort
\* ------------------------------------------------------------------------
RECURSIVE Insert(_, _, _)
\* c is x < s[j]
InsertCompared(s, x, j, c) ==
    IF c = "TypeError" THEN Raise("TypeError", "sorted")
    ELSE IF c = "true" THEN Insert(s, x, j - 1)
    ELSE Return(SubSeq(s, 1, j) \o <<x>> \o SubSeq(s, j + 1, Len(s)))

Insert(s, x, j) ==
    IF j = 0 THEN Return(<<x>> \o s)
    ELSE InsertCompared(s, x, j, EntryLt(x, s[j]))

RECURSIVE SortFrom(_, _, _)
SortInserted(list, k, r) ==
    IF r.kind = "raise" THEN r ELSE SortFrom(list, k + 1, r.value)

SortFrom(list, k, acc) ==
    IF k > Len(list) THEN Return(acc)
    ELSE SortInserted(list, k, Insert(acc, list[k], Len(acc)))

Sorted(list) == SortFrom(list, 1, <<>>)

\* ------------------------------------------------------------------------
\* all_same_version (geoblock.py:105-117)
\* ------------------------------------------------------------------------
\* the generator of line 115-117: x.start.version is an AttributeError on a str
RECURSIVE ScanVersions(_, _, _)
ScanVersions(first, ip_ranges, i) ==
    IF i > Len(ip_ranges) THEN "true"
    ELSE IF first.start.kind # "addr" \/ ip_ranges[i].start.kind # "addr"
    THEN "AttributeError"
    ELSE IF first.start.version # ip_ranges[i].start.version THEN "false"
    ELSE ScanVersions(first, ip_ranges, i + 1)

\* lines 115-117 given the outcome of all(...)
VersionVerdict(first, scan) ==
    IF scan = "AttributeError"
    THEN Raise("AttributeError", "all_same_version")
    ELSE IF scan = "false" THEN Return(<<FALSE>>)
    ELSE Return(<<first.start.version \in {4, 6}>>)

\* all_same_version without the access to ip_ranges[0] on an empty list
AllSameVersionEmptyOk(ip_ranges) ==
    IF ip_ranges = <<>> THEN Return(<<TRUE>>)
    ELSE VersionVerdict(ip_ranges[1],
                        ScanVersions(ip_ranges[1], ip_ranges, 1))

AllSameVersion(ip_ranges) ==
    IF ip_ranges = <<>> THEN Raise("IndexError", "all_same_version")
    ELSE VersionVerdict(ip_ranges[1],
                        ScanVersions(ip_ranges[1], ip_ranges, 1))

\* lines 134-136 given the outcome c of all_same_version(db)
ReadDbResult(db, c) ==
    IF c.kind = "raise" THEN c
    ELSE IF ~c.value[1] THEN Raise("ValueError", "read_db")
    ELSE Return(db)

\* ------------------------------------------------------------------------
\* bisect_right, search_ip_range, country_code (geoblock.py:139-175)
\* ------------------------------------------------------------------------
\* bisect_right(database, ip, key=lambda x: x.start), lo and hi 0-based;
\* -1 where the comparison ip < start raises TypeError
RECURSIVE BisectRight(_, _, _, _)
\* c is x < key(a[mid])
BisectCompared(a, x, lo, hi, mid, c) ==
    IF c = "TypeError" THEN -1
    ELSE IF c = "true" THEN BisectRight(a, x, lo, mid)
    ELSE BisectRight(a, x, mid + 1, hi)

BisectRight(a, x, lo, hi) ==
    IF lo < hi
    THEN BisectCompared(a, x, lo, hi, (lo + hi) \div 2,
                        PyLt(x, a[((lo + hi) \div 2) + 1].start))
    ELSE lo

\* line 154-155: row.start <= ip <= row.end, from the two comparisons
RowIfWithin(row, lower, upper) ==
    IF lower = "TypeError" THEN Raise("TypeError", "search_ip_range")
    ELSE IF lower = "false" THEN Return(<<>>)
    ELSE IF upper = "TypeError" THEN Raise("TypeError", "search_ip_range")
    ELSE IF upper = "true" THEN Return(<<row.data>>)
    ELSE Return(<<>>)

\* lines 152-156 given i = bisect_right(...)
SearchAt(database, ip, i) ==
    IF i = -1 THEN Raise("TypeError", "bisect_right")
    ELSE IF i # 0
    THEN RowIfWithin(database[i], PyLe(database[i].start, ip),
                     PyLe(ip, database[i].end))
    ELSE Return(<<>>)

SearchIpRange(database, ip) ==
    SearchAt(database, ip, BisectRight(database, ip, 0, Len(database)))

\* line 172: the member of Databases searched for an address
Route(ip) == IF ip.version = 4 THEN "v4" ELSE "v6"

\* line 172: db, <<>> where ip_address raised before
SelectDb(dbs, ip) == IF ip.ok THEN dbs[Route(ip)] ELSE <<>>

\* line 174: match, not called where ip_address raised before
Match(database, ip) ==
    IF ip.ok THEN SearchIpRange(database, Obj(ip)) ELSE NotCalled

\* lines 171-175 given ip and match: <<code>>, <<>> for None, or a raise
CountryCodeOf(ip, match) ==
    IF ~ip.ok THEN Raise("ValueError", "ip_address")
    ELSE IF match.kind = "raise" THEN match
    ELSE IF match.value # <<>>
    THEN Return(<<match.value[1].country_code>>)
    ELSE Return(<<>>)

\* country_code(databases, address)
CountryCode(dbs, text) ==
    CountryCodeOf(IpAddress(text),
                  Match(SelectDb(dbs, IpAddress(text)), IpAddress(text)))

\* ------------------------------------------------------------------------
\* Inputs: literal texts, CSV rows (3 fields each), query texts
\* ------------------------------------------------------------------------
T_1_0_0_0 == <<"1", ".", "0", ".", "0", ".", "0">>

T_1_0_0_5 == <<"1", ".", "0", ".", "0", ".", "5">>

T_1_0_0_255 == <<"1", ".", "0", ".", "0", ".", "2", "5", "5">>

T_1_0_1_0 == <<"1", ".", "0", ".", "1", ".", "0">>

T_9_0_0_0 == <<"9", ".", "0", ".", "0", ".", "0">>

T_10_0_0_0 == <<"1", "0", ".", "0", ".", "0", ".", "0">>

T_Malformed == <<"1", ".", "0", ".", "0", ".", "x">>

T6_1 == <<":", ":", "1">>

T6_0_1 == <<"0", ":", ":", "1">>

T6_10 == <<":", ":", "1", "0">>

T6_ff == <<":", ":", "f", "f">>

AU == <<"A", "U">>

CN == <<"C", "N">>

US == <<"U", "S">>

\* rows of IPv4 ranges whose two literals parse
V4Rows ==
    { <<T_1_0_0_0, T_1_0_0_255, AU>>,
      <<T_1_0_0_0, T_1_0_0_255, CN>>,
      <<T_1_0_0_0, T_9_0_0_0, AU>>,
      <<T_9_0_0_0, T_9_0_0_0, CN>>,
      <<T_10_0_0_0, T_10_0_0_0, AU>>,
      <<T_9_0_0_0, T_1_0_0_0, CN>> }

\* rows of IPv6 ranges whose two literals parse
V6Rows ==
    { <<T6_1, T6_ff, US>>,
      <<T6_0_1, T6_ff, AU>> }

\* rows that ip_range_from_csv rejects
BadRows ==
    { <<T_1_0_0_0, T6_1, US>>,
      <<T_Malformed, T_1_0_0_255, AU>>,
      <<T6_1, T_Malformed, US>> }

Rows == V4Rows \cup V6Rows \cup BadRows

SeqsUpTo(S, n) == UNION {[1..k -> S] : k \in 0..n}

\* the texts a lookup is asked about
Addresses ==
    { T_1_0_0_0, T_1_0_0_5, T_1_0_0_255, T_1_0_1_0, T_9_0_0_0, T_10_0_0_0,
      T6_1, T6_10, T6_ff, T_Malformed }

\* the contents the IPv4 dataset file can have, already there or downloaded
V4Files == SeqsUpTo(Rows, MaxRows)

\* the contents the IPv6 dataset file can have
V6Files == {<<>>} \cup {<<r>> : r \in V6Rows}

\* ------------------------------------------------------------------------
\* The dataset files and download_file (geoblock.py:48-78)
\* ------------------------------------------------------------------------
\* a path of the working directory: no file, or a file csv.reader reads as rs
Missing == [exists |-> FALSE, rows |-> <<>>]

File(rs) == [exists |-> TRUE, rows |-> rs]

\* what requests.get meets: no connection (it raises), an error status
\* (raise_for_status raises), or a body
Response(status, content) == [status |-> status, content |-> content]

Responses(S) ==
    {Response("ok", c) : c \in S}
    \cup {Response("http_error", <<>>), Response("unreachable", <<>>)}

\* lines 73-74 and 78: what the call returns or raises
DownloadFile(response) ==
    IF response.status = "unreachable"
    THEN Raise("ConnectionError", "requests.get")
    ELSE IF response.status = "http_error"
    THEN Raise("HTTPError", "raise_for_status")
    ELSE Return(<<response>>)

\* lines 75-77: the file at path once the call r has ended
Written(file, has_path, r) ==
    IF r.kind = "return" /\ has_path THEN File(r.value[1].content) ELSE file

\* ------------------------------------------------------------------------
\* State
\* ------------------------------------------------------------------------
VARIABLES
    files,       \* the two dataset files, [v4, v6], each Missing or File(rows)
    pc,          \* module body of service.py: "exists4", "exists6" (lines 29,
                 \* 33), "parse", "check" (read_db), "ready" (line 59 done),
                 \* "failed" (an exception left the module body)
    entries,     \* read_db: the list the comprehension of line 132 has built
    db,          \* read_db: the sorted list, line 131
    results,     \* what the read_db calls of lines 40-41 returned or raised
    raised,      \* the exception that left the module body
    printed,     \* the lines printed so far (service.py:30, 34, 37, 44)
    databases,   \* self.databases, line 39
    address,     \* Service.country_code: the text of the last lookup
    outcome      \* Service.country_code: what the last lookup returned or raised

vars == <<files, pc, entries, db, results, raised, printed, databases,
          address, outcome>>

lookupVars == <<address, outcome>>

\* Databases(v4, v6), and self.databases before line 39 has assigned it
Databases(v4, v6) == [assigned |-> TRUE, v4 |-> v4, v6 |-> v6]

Unassigned == [assigned |-> FALSE, v4 |-> <<>>, v6 |-> <<>>]

\* the argument of Databases(...) being evaluated: read_db(COUNTRY_IPV4_DB_FILE)
\* first, read_db(COUNTRY_IPV6_DB_FILE) once the first has returned
reading == IF results = <<>> THEN "v4" ELSE "v6"

\* read_db: the rows csv.reader yields from the file being read
rows == files[reading].rows

\* ------------------------------------------------------------------------
\* Service.__init__ (service.py:27-44), run by the module body (line 59)
\* ------------------------------------------------------------------------
Init ==
    /\ files \in [v4 : {Missing} \cup {File(c) : c \in V4Files},
                  v6 : {Missing} \cup {File(c) : c \in V6Files}]
    /\ pc = "exists4"
    /\ entries = <<>>
    /\ db = <<>>
    /\ results = <<>>
    /\ raised = NotCalled
    /\ printed = <<>>
    /\ databases = Unassigned
    /\ address = <<>>
    /\ outcome = NotCalled

\* lines 31 / 35: download_file(url, file, 10) has ended with r
EnsureFile(member, r, next) ==
    /\ files' = [files EXCEPT ![member] = Written(files[member], TRUE, r)]
    /\ raised' = IF r.kind = "raise" THEN r ELSE raised
    /\ pc' = IF r.kind = "raise" THEN "failed" ELSE next

\* lines 29-31
FetchV4 ==
    /\ pc = "exists4"
    /\ IF files.v4.exists
       THEN /\ pc' = "exists6"
            /\ UNCHANGED <<files, raised, printed>>
       ELSE /\ printed' = Append(printed, "Downloading IPv4 database...")
            /\ \E response \in Responses(V4Files) :
                   EnsureFile("v4", DownloadFile(response), "exists6")
    /\ UNCHANGED <<entries, db, results, databases, lookupVars>>

\* lines 33-37 given the lines printed up to line 35
Reading(lines) ==
    printed' = IF pc' = "parse"
               THEN Append(lines, "Reading databases...")
               ELSE lines

FetchV6 ==
    /\ pc = "exists6"
    /\ IF files.v6.exists
       THEN /\ pc' = "parse"
            /\ Reading(printed)
            /\ UNCHANGED <<files, raised>>
       ELSE /\ \E response \in Responses(V6Files) :
                   EnsureFile("v6", DownloadFile(response), "parse")
            /\ Reading(Append(printed, "Downloading IPv6 database..."))
    /\ UNCHANGED <<entries, db, results, databases, lookupVars>>

\* ------------------------------------------------------------------------
\* read_db (geoblock.py:120-136), one step per evaluation
\* ------------------------------------------------------------------------
\* line 132: ip_range_from_csv(row) for the next row of the comprehension
ParseRowResult(r) ==
    IF r.kind = "raise"
    THEN /\ results' = Append(results, r)
         /\ raised' = r
         /\ pc' = "failed"
         /\ entries' = entries
    ELSE /\ entries' = Append(entries, r.value[1])
         /\ UNCHANGED <<results, raised, pc>>

ParseRow ==
    /\ pc = "parse"
    /\ Len(entries) < Len(rows)
    /\ ParseRowResult(IpRangeFromCsv(rows[Len(entries) + 1]))
    /\ UNCHANGED <<files, db, printed, databases, lookupVars>>

\* line 131: db = sorted([...]) once every row is parsed
SortResult(r) ==
    IF r.kind = "raise"
    THEN /\ results' = Append(results, r)
         /\ raised' = r
         /\ pc' = "failed"
         /\ db' = db
    ELSE /\ db' = r.value
         /\ pc' = "check"
         /\ UNCHANGED <<results, raised>>

Sort ==
    /\ pc = "parse"
    /\ Len(entries) = Len(rows)
    /\ SortResult(Sorted(entries))
    /\ UNCHANGED <<files, entries, printed, databases, lookupVars>>

\* lines 134-136 have ended with r: a raise leaves the module body; the
\* first table returned is held while read_db reads the IPv6 file
\* (service.py:40-41); the second one completes line 39, and lines 44 and 59
\* follow
CheckResult(r) ==
    IF r.kind = "raise"
    THEN /\ raised' = r
         /\ pc' = "failed"
         /\ UNCHANGED <<entries, db, printed, databases>>
    ELSE IF results = <<>>
    THEN /\ entries' = <<>>
         /\ db' = <<>>
         /\ pc' = "parse"
         /\ UNCHANGED <<raised, printed, databases>>
    ELSE /\ databases' = Databases(results[1].value, r.value)
         /\ printed' = Append(printed, "Ready!")
         /\ pc' = "ready"
         /\ UNCHANGED <<entries, db, raised>>

\* lines 134-136: the version check, then raise or return db
Check ==
    /\ pc = "check"
    /\ results' = Append(results, ReadDbResult(db, AllSameVersion(db)))
    /\ CheckResult(ReadDbResult(db, AllSameVersion(db)))
    /\ UNCHANGED <<files, lookupVars>>

Next == FetchV4 \/ FetchV6 \/ ParseRow \/ Sort \/ Check

Spec == Init /\ [][Next]_vars

\* ------------------------------------------------------------------------
\* Service.country_code (service.py:46-56), called by the request handler
\* (main.py:23-24) on the module-level service object
\* ------------------------------------------------------------------------
Lookup(a) ==
    /\ pc = "ready"
    /\ address' = a
    /\ outcome' = CountryCode(databases, a)
    /\ UNCHANGED <<files, pc, entries, db, results, raised, printed,
                   databases>>

Serve == \E a \in Addresses : Lookup(a)

SpecService == Init /\ [][Next \/ Serve]_vars

\* read_db raises on every file (all_same_version meets str fields, or an
\* earlier step has raised), so the module body never reaches line 59 and
\* Serve is never enabled: SpecService and Spec have the same reachable
\* states.  An invariant of SpecService.
ServeNeverEnabled == pc # "ready" /\ outcome = NotCalled

\* ------------------------------------------------------------------------
\* Reference notions used by the properties (numeric reading of the texts)
\* ------------------------------------------------------------------------
\* both literals of a row parse / and are of one family / of two families
RowParses(r) == IpAddress(r[1]).ok /\ IpAddress(r[2]).ok

RowValid(r) == RowParses(r) /\ IpAddress(r[1]).version = IpAddress(r[2]).version

RowMixed(r) == RowParses(r) /\ IpAddress(r[1]).version # IpAddress(r[2]).version

\* a non-empty file of valid rows, all of one family
ValidInput(rs) ==
    /\ rs # <<>>
    /\ \A i \in 1..Len(rs) : RowValid(rs[i])
    /\ \A i \in 1..Len(rs) :
           IpAddress(rs[i][1]).version = IpAddress(rs[1][1]).version

\* the file the i-th read_db call of Service.__init__ reads
RowsRead(i) == files[IF i = 1 THEN "v4" ELSE "v6"].rows

\* the row an entry was made from
RowOf(e) == <<e.start.s, e.end.s, e.data.country_code>>

Count(seq, x) == Cardinality({i \in 1..Len(seq) : seq[i] = x})

\* the table holds exactly the rows: the same multiset of (start, end, code)
SameRows(table, rs) ==
    /\ Len(table) = Len(rs)
    /\ \A r \in Rows : Count([i \in 1..Len(table) |-> RowOf(table[i])], r)
                       = Count(rs, r)

\* the address an entry starts / ends at, and its family
StartOf(e) == IpAddress(e.start.s)

EndOf(e) == IpAddress(e.end.s)

\* a <= b for two addresses of one family, by integer value
NumLe(a, b) == ~SeqLt(b.ip, a.ip)

SameFamily(table) ==
    \A i, j \in 1..Len(table) :
        /\ StartOf(table[i]).version = StartOf(table[j]).version
        /\ EndOf(table[i]).version = StartOf(table[j]).version

\* adjacent entries ascend by the integer value of start
AscendingStarts(table) ==
    \A i \in 1..(Len(table) - 1) :
        NumLe(StartOf(table[i]), StartOf(table[i + 1]))

\* the entry order (start, end, country_code) that the entries' own field
\* comparison gives, a tie on all three fields included
TupleLe(a, b) ==
    IF a.start.s # b.start.s THEN StrLt(a.start.s, b.start.s)
    ELSE IF a.end.s # b.end.s THEN StrLt(a.end.s, b.end.s)
    ELSE ~StrLt(b.data.country_code, a.data.country_code)

\* ------------------------------------------------------------------------
\* Properties
\* ------------------------------------------------------------------------

\* C1: read_db returns a table exactly for the non-empty files of valid rows
\* of one family, and the table then holds exactly the rows of the file; it
\* fails only on a malformed literal, a family mismatch in a row, a mix of
\* families across rows, or an empty file.
C1_BuildFailsOnlyInListedCases ==
    \A i \in 1..Len(results) :
        IF ValidInput(RowsRead(i))
        THEN /\ results[i].kind = "return"
             /\ SameRows(results[i].value, RowsRead(i))
        ELSE results[i].kind = "raise"

\* C4: the table read_db has sorted from a valid file (the list it hands to
\* the version check and returns) is ascending by the integer value of
\* start: for adjacent entries a, b, a.start <= b.start.
C4_SortedByNumericStart ==
    /\ (pc = "check" /\ ValidInput(rows)) => AscendingStarts(db)
    /\ \A i \in 1..Len(results) :
           results[i].kind = "return" => AscendingStarts(results[i].value)

\* C5: read_db never returns a table of both families, and a file with a
\* row whose start and end are of different families makes it fail: the
\* comprehension raises ValueError before anything is sorted, and it is
\* ip_range_from_csv that raises when no malformed row comes earlier.
C5_FamilyHomogeneity ==
    \A i \in 1..Len(results) :
        /\ results[i].kind = "return" => SameFamily(results[i].value)
        /\ (\E k \in 1..Len(RowsRead(i)) : RowMixed(RowsRead(i)[k])) =>
               /\ results[i].kind = "raise"
               /\ results[i].exc = "ValueError"
               /\ results[i].at \in {"ip_address", "ip_range_from_csv"}
               /\ db = <<>>
        /\ (\E k \in 1..Len(RowsRead(i)) :
                /\ RowMixed(RowsRead(i)[k])
                /\ \A j \in 1..(k - 1) : RowValid(RowsRead(i)[j])) =>
               results[i].at = "ip_range_from_csv"

C5_Witness ==
    /\ pc = "failed"
    /\ Len(results) = 1
    /\ Len(files.v4.rows) = 2
    /\ RowValid(files.v4.rows[1])
    /\ RowMixed(files.v4.rows[2])
    /\ Len(entries) = 1
    /\ results[1].at = "ip_range_from_csv"

\* C6: the sort orders the entries by (start, end, country_code): it
\* succeeds on every file whose rows all parse, ties on start and on
\* (start, end) included, and leaves the list in that order.
C6_FullTupleOrdering ==
    /\ \A i \in 1..Len(results) :
           (\A k \in 1..Len(RowsRead(i)) : RowValid(RowsRead(i)[k]))
           => results[i].at # "sorted"
    /\ pc = "check" =>
           /\ Len(db) = Len(rows)
           /\ \A k \in 1..(Len(db) - 1) : TupleLe(db[k], db[k + 1])

\* C7: read_db on an empty file fails, with an error kind (IndexError) that
\* no other failure of read_db has - the parse, family-mismatch and
\* version-mismatch failures are ValueError - and returns no empty table.
C7_EmptyInputFails ==
    \A i \in 1..Len(results) :
        /\ RowsRead(i) = <<>> =>
               /\ results[i].kind = "raise"
               /\ results[i].exc = "IndexError"
        /\ RowsRead(i) # <<>> => results[i].exc # "IndexError"
        /\ results[i].at \in {"ip_address", "ip_range_from_csv", "read_db"} =>
               results[i].exc = "ValueError"
        /\ ~(results[i].kind = "return" /\ results[i].value = <<>>)

C7_Witness ==
    /\ pc = "failed"
    /\ files.v4 = File(<<>>)
    /\ Len(results) = 1
    /\ results[1].kind = "raise"
    /\ results[1].exc = "IndexError"

====
